---- MODULE Spec2Model ----
(***************************************************************************)
(* Email-verification code lifecycle of the Sefro REST backend.            *)
(*                                                                         *)
(* The database table of users is `db` (one row per email); `now` is the   *)
(* clock in whole seconds.  Every request handler and management command   *)
(* is a small program over one row: it loads the row (User.objects.get),   *)
(* works on its in-memory instance and writes the whole instance back on   *)
(* every save().  Spec runs each handler to completion as one step (the    *)
(* sequential behaviour); SpecConc runs the same handler programs one      *)
(* database access at a time in two request slots, so that requests        *)
(* interleave.  `code_length` is settings.VERIFICATION_CODE_LENGTH as the   *)
(* deployment configures it: the default in Spec and SpecConc, any length  *)
(* in SpecLen.  The articles with their likes and the login accounts have  *)
(* their own specifications, SpecArticle, SpecLike and SpecAccounts.       *)
(***************************************************************************)
EXTENDS Integers, Sequences, FiniteSets, TLC

VARIABLES db, now, last, reqs, code_length,
          articles, likes, liking, accounts, signup, session

vars ==
  <<db, now, last, reqs, code_length, articles, likes, liking, accounts, signup,
    session>>

\* The tables and requests outside the verification lifecycle: articles,
\* their likes and the like requests in flight, the login accounts, the
\* account creation in progress and the last login response.
site == <<articles, likes, liking, accounts, signup, session>>

\* The verification lifecycle's own state.
verification == <<db, last, reqs, code_length>>

(* ------------------------------ bounds --------------------------------- *)

\* settings.VERIFICATION_CODE_LENGTH: the length of the codes the generator
\* returns (6 by default; scaled down).
VERIFICATION_CODE_LENGTH == 1

\* settings.EMAIL_VERIFICATION_TIMEOUT in seconds (3600 by default; scaled down).
EMAIL_VERIFICATION_TIMEOUT == 2

\* The clock stops advancing here.
MaxTime == 4

\* No account is created once this many exist.
MaxAccounts == 3

\* The longest code length a deployment configures in SpecLen.
MaxCodeLength == 2

\* Request slots of the concurrent specification.
Slots == {1, 2}

\* The emails requests are addressed to; accounts are only ever created for
\* the first set, so "nobody" always matches no user.
Registrable == {"a"}

Emails == Registrable \cup {"nobody"}

\* The decimal digits the generator draws from (two of them suffice).
Digits == {"0", "1"}

(* ------------------------------ values --------------------------------- *)

\* Python None for a string field, and for a timestamp field.
None == <<"None">>

NoTime == -1

\* All strings of exactly `length` digits, as sequences of characters.
DigitStrings(length) == [1..length -> Digits]

\* utils.generate_verification_code(length): any string of `length` digits.
generate_verification_code(length) == DigitStrings(length)

\* The codes the handlers issue under the default configuration:
\* generate_verification_code() with the default length.
Codes == generate_verification_code(VERIFICATION_CODE_LENGTH)

\* User.generate_verification_code draws range(6) digits: the literal 6 is
\* the number the setting defaults to, and is scaled with it.
UserCodeLength == VERIFICATION_CODE_LENGTH

\* The codes User.generate_verification_code returns, whatever is configured.
UserCodes == DigitStrings(UserCodeLength)

\* Every string a generator can return under some configuration.
CodeStrings ==
  Codes \cup UserCodes
    \cup UNION {generate_verification_code(n) : n \in 0..MaxCodeLength}

\* utils.generate_verification_code() with no length given:
\* getattr(settings, 'VERIFICATION_CODE_LENGTH', 6).
ConfiguredCodes == generate_verification_code(code_length)

\* Candidates a client can submit: every well-formed code, a code with a
\* trailing blank, the empty string and an absent value.
Candidates == Codes \cup {c \o <<" ">> : c \in Codes} \cup {<<>>, None}

\* Python truthiness of an optional string: None and "" are falsy.
Falsy(s) == s = None \/ s = <<>>

\* A row of the user table that does not exist.
NoUser ==
  [exists |-> FALSE, is_email_verified |-> FALSE,
   verification_code |-> None, verification_code_created |-> NoTime]

\* UserManager.create_user: a fresh account, unverified and without a code.
create_user ==
  [exists |-> TRUE, is_email_verified |-> FALSE,
   verification_code |-> None, verification_code_created |-> NoTime]

(* --------------------------- User methods ------------------------------ *)

\* User.set_verification_code without the timestamp (mutant).
set_verification_code_no_time(user, code, t) ==
  [user EXCEPT !.verification_code = code]

\* User.set_verification_code that keeps a code already stored and only
\* renews its timestamp (mutant).
set_verification_code_keep(user, code, t) ==
  IF user.verification_code = None
  THEN [user EXCEPT !.verification_code = code, !.verification_code_created = t]
  ELSE [user EXCEPT !.verification_code_created = t]

\* User.set_verification_code: the instance that its save() writes.
set_verification_code(user, code, t) ==
  [user EXCEPT !.verification_code = code, !.verification_code_created = t]

\* User.generate_verification_code stores its code the same way.
user_generate_verification_code(user, code, t) ==
  [user EXCEPT !.verification_code = code, !.verification_code_created = t]

\* User.clear_verification_code: the instance that its save() writes.
clear_verification_code(user) ==
  [user EXCEPT !.verification_code = None, !.verification_code_created = NoTime]

\* Expiry test with >= in place of > (mutant).
is_verification_code_valid_ge(user, code, t) ==
  IF Falsy(user.verification_code) \/ user.verification_code_created = NoTime
  THEN FALSE
  ELSE LET is_expired == (t - user.verification_code_created) >= EMAIL_VERIFICATION_TIMEOUT
       IN  ~is_expired /\ user.verification_code = code

\* No fail-closed guard: a missing timestamp counts as just issued (mutant).
is_verification_code_valid_open(user, code, t) ==
  LET created == IF user.verification_code_created = NoTime
                 THEN t ELSE user.verification_code_created
      is_expired == (t - created) > EMAIL_VERIFICATION_TIMEOUT
  IN  ~is_expired /\ user.verification_code = code

\* A string without its trailing blanks.
RECURSIVE Strip(_)
Strip(s) ==
  IF s # None /\ Len(s) > 0 /\ s[Len(s)] = " "
  THEN Strip(SubSeq(s, 1, Len(s) - 1)) ELSE s

\* The candidate is trimmed before the comparison (mutant).
is_verification_code_valid_strip(user, code, t) ==
  IF Falsy(user.verification_code) \/ user.verification_code_created = NoTime
  THEN FALSE
  ELSE LET is_expired == (t - user.verification_code_created) > EMAIL_VERIFICATION_TIMEOUT
       IN  ~is_expired /\ user.verification_code = Strip(code)

\* User.is_verification_code_valid: fails closed without a code or a
\* timestamp; otherwise not expired (elapsed > timeout) and equal strings.
is_verification_code_valid(user, code, t) ==
  IF Falsy(user.verification_code) \/ user.verification_code_created = NoTime
  THEN FALSE
  ELSE LET is_expired == (t - user.verification_code_created) > EMAIL_VERIFICATION_TIMEOUT
       IN  ~is_expired /\ user.verification_code = code

\* User.verify_code
user_verify_code(user, code, t) == is_verification_code_valid(user, code, t)

(* ----------------------------- requests -------------------------------- *)

\* What send_verification_email(user, code) of utils.py can do: return True
\* after the SMTP send, return False (no transport configured, or the SMTP
\* send failed and no fallback exists), or raise (the HTTP provider fallback is
\* called with an unknown keyword).
MailOutcomes == {"sent", "false", "raise"}

\* register_view also skips the dispatch when settings.EMAIL_DELIVERY_CHECK
\* is off.
RegisterMailOutcomes == MailOutcomes \cup {"skipped"}

\* is_email_verified as a client may put it in a users API payload.
ClientFlags == {"absent", "true", "false"}

Response(status, code) == [status |-> status, code |-> code]

NoResponse == Response(0, "none")

\* A request that has not started: the state of an empty slot.
IdleReq ==
  [op |-> "none", email |-> "a", code |-> None, gen |-> None, mail |-> "sent",
   flag |-> FALSE, data |-> "absent", pc |-> "idle",
   read |-> NoUser, user |-> NoUser, resp |-> NoResponse]

\* A request as it arrives: operation, addressed email, submitted candidate,
\* and what the environment will answer during it (the code the generator
\* returns, the mail outcome, a setting or option, the client's payload).
NewReq(op, email, code, gen, mail, flag, data) ==
  [IdleReq EXCEPT !.op = op, !.email = email, !.code = code, !.gen = gen,
                  !.mail = mail, !.flag = flag, !.data = data, !.pc = "get"]

\* A step of a handler: the request after it and the row after it.
Goes(r, row) == [req |-> r, row |-> row]

\* The handler returns a response.
Returns(r, status, code) ==
  [r EXCEPT !.pc = "done", !.resp = Response(status, code)]

\* User.objects.get succeeded: the request holds the instance.
Loaded(r, row) == [r EXCEPT !.read = row, !.user = row]

\* verify_email that accepts any candidate while a code is stored (mutant).
verify_email_step_any(r, row, t) ==
  CASE r.pc = "get" ->
         IF Falsy(r.code) THEN Goes(Returns(r, 400, "missing_fields"), row)
         ELSE IF ~row.exists THEN Goes(Returns(r, 404, "user_not_found"), row)
         ELSE IF row.is_email_verified
           THEN Goes(Returns(Loaded(r, row), 200, "already_verified"), row)
         ELSE IF Falsy(row.verification_code)
           THEN Goes(Returns(Loaded(r, row), 400, "invalid_code"), row)
         ELSE Goes([Loaded(r, row) EXCEPT !.pc = "clear",
                      !.user = [row EXCEPT !.is_email_verified = TRUE]], row)
    [] r.pc = "clear" ->
         LET user == clear_verification_code(r.user)
         IN  Goes([r EXCEPT !.pc = "save", !.user = user], user)
    [] r.pc = "save" -> Goes(Returns(r, 200, "success"), r.user)

\* verify_email that marks the user verified but keeps the code (mutant).
verify_email_step_keep(r, row, t) ==
  CASE r.pc = "get" ->
         IF Falsy(r.code) THEN Goes(Returns(r, 400, "missing_fields"), row)
         ELSE IF ~row.exists THEN Goes(Returns(r, 404, "user_not_found"), row)
         ELSE IF row.is_email_verified
           THEN Goes(Returns(Loaded(r, row), 200, "already_verified"), row)
         ELSE IF ~is_verification_code_valid(row, r.code, t)
           THEN Goes(Returns(Loaded(r, row), 400, "invalid_code"), row)
         ELSE Goes([Loaded(r, row) EXCEPT !.pc = "clear",
                      !.user = [row EXCEPT !.is_email_verified = TRUE]], row)
    [] r.pc = "clear" -> Goes([r EXCEPT !.pc = "save"], r.user)
    [] r.pc = "save" -> Goes(Returns(r, 200, "success"), r.user)

\* verify_email that discards the stored code on a failed attempt (mutant).
verify_email_step_burn(r, row, t) ==
  CASE r.pc = "get" ->
         IF Falsy(r.code) THEN Goes(Returns(r, 400, "missing_fields"), row)
         ELSE IF ~row.exists THEN Goes(Returns(r, 404, "user_not_found"), row)
         ELSE IF row.is_email_verified
           THEN Goes(Returns(Loaded(r, row), 200, "already_verified"), row)
         ELSE IF ~is_verification_code_valid(row, r.code, t)
           THEN Goes(Returns(Loaded(r, row), 400, "invalid_code"),
                     clear_verification_code(row))
         ELSE Goes([Loaded(r, row) EXCEPT !.pc = "clear",
                      !.user = [row EXCEPT !.is_email_verified = TRUE]], row)
    [] r.pc = "clear" ->
         LET user == clear_verification_code(r.user)
         IN  Goes([r EXCEPT !.pc = "save", !.user = user], user)
    [] r.pc = "save" -> Goes(Returns(r, 200, "success"), r.user)

\* verify_email that validates the candidate before it looks at the
\* verified flag (mutant).
verify_email_step_recheck(r, row, t) ==
  CASE r.pc = "get" ->
         IF Falsy(r.code) THEN Goes(Returns(r, 400, "missing_fields"), row)
         ELSE IF ~row.exists THEN Goes(Returns(r, 404, "user_not_found"), row)
         ELSE IF ~is_verification_code_valid(row, r.code, t)
           THEN Goes(Returns(Loaded(r, row), 400, "invalid_code"), row)
         ELSE IF row.is_email_verified
           THEN Goes(Returns(Loaded(r, row), 200, "already_verified"), row)
         ELSE Goes([Loaded(r, row) EXCEPT !.pc = "clear",
                      !.user = [row EXCEPT !.is_email_verified = TRUE]], row)
    [] r.pc = "clear" ->
         LET user == clear_verification_code(r.user)
         IN  Goes([r EXCEPT !.pc = "save", !.user = user], user)
    [] r.pc = "save" -> Goes(Returns(r, 200, "success"), r.user)

\* verify_email that tells an expired code from a wrong one (mutant).
verify_email_step_leak(r, row, t) ==
  CASE r.pc = "get" ->
         IF Falsy(r.code) THEN Goes(Returns(r, 400, "missing_fields"), row)
         ELSE IF ~row.exists THEN Goes(Returns(r, 404, "user_not_found"), row)
         ELSE IF row.is_email_verified
           THEN Goes(Returns(Loaded(r, row), 200, "already_verified"), row)
         ELSE IF ~is_verification_code_valid(row, r.code, t)
           THEN IF row.verification_code = r.code
                THEN Goes(Returns(Loaded(r, row), 400, "expired_code"), row)
                ELSE Goes(Returns(Loaded(r, row), 400, "invalid_code"), row)
         ELSE Goes([Loaded(r, row) EXCEPT !.pc = "clear",
                      !.user = [row EXCEPT !.is_email_verified = TRUE]], row)
    [] r.pc = "clear" ->
         LET user == clear_verification_code(r.user)
         IN  Goes([r EXCEPT !.pc = "save", !.user = user], user)
    [] r.pc = "save" -> Goes(Returns(r, 200, "success"), r.user)

\* views.verify_email: get the user; answer early when the fields are
\* missing, the user is unknown, already verified or the code is not valid;
\* otherwise set the flag, clear_verification_code() (first save) and
\* user.save() (second save).
verify_email_step(r, row, t) ==
  CASE r.pc = "get" ->
         IF Falsy(r.code) THEN Goes(Returns(r, 400, "missing_fields"), row)
         ELSE IF ~row.exists THEN Goes(Returns(r, 404, "user_not_found"), row)
         ELSE IF row.is_email_verified
           THEN Goes(Returns(Loaded(r, row), 200, "already_verified"), row)
         ELSE IF ~is_verification_code_valid(row, r.code, t)
           THEN Goes(Returns(Loaded(r, row), 400, "invalid_code"), row)
         ELSE Goes([Loaded(r, row) EXCEPT !.pc = "clear",
                      !.user = [row EXCEPT !.is_email_verified = TRUE]], row)
    [] r.pc = "clear" ->
         LET user == clear_verification_code(r.user)
         IN  Goes([r EXCEPT !.pc = "save", !.user = user], user)
    [] r.pc = "save" -> Goes(Returns(r, 200, "success"), r.user)

\* verify_code without the early answer for a verified user (mutant).
verify_code_step_unguarded(r, row, t) ==
  CASE r.pc = "get" ->
         IF Falsy(r.code) THEN Goes(Returns(r, 400, "code_required"), row)
         ELSE IF ~row.exists THEN Goes(Returns(r, 404, "user_not_found"), row)
         ELSE IF ~user_verify_code(row, r.code, t)
           THEN Goes(Returns(Loaded(r, row), 400, "invalid_code"), row)
         ELSE Goes([Loaded(r, row) EXCEPT !.pc = "save",
                      !.user = [row EXCEPT !.is_email_verified = TRUE,
                                           !.verification_code = None,
                                           !.verification_code_created = NoTime]],
                   row)
    [] r.pc = "save" -> Goes(Returns(r, 200, "success"), r.user)

\* verification_email.verify_code: the second consume endpoint; one save.
verify_code_step(r, row, t) ==
  CASE r.pc = "get" ->
         IF Falsy(r.code) THEN Goes(Returns(r, 400, "code_required"), row)
         ELSE IF ~row.exists THEN Goes(Returns(r, 404, "user_not_found"), row)
         ELSE IF row.is_email_verified
           THEN Goes(Returns(Loaded(r, row), 200, "already_verified"), row)
         ELSE IF ~user_verify_code(row, r.code, t)
           THEN Goes(Returns(Loaded(r, row), 400, "invalid_code"), row)
         ELSE Goes([Loaded(r, row) EXCEPT !.pc = "save",
                      !.user = [row EXCEPT !.is_email_verified = TRUE,
                                           !.verification_code = None,
                                           !.verification_code_created = NoTime]],
                   row)
    [] r.pc = "save" -> Goes(Returns(r, 200, "success"), r.user)

\* resend_verification without the already-verified guard (mutant).
resend_verification_step_noguard(r, row, t) ==
  CASE r.pc = "get" ->
         IF ~row.exists THEN Goes(Returns(r, 404, "user_not_found"), row)
         ELSE Goes([Loaded(r, row) EXCEPT !.pc = "setcode"], row)
    [] r.pc = "setcode" ->
         LET user == set_verification_code(r.user, r.gen, t)
         IN  Goes([r EXCEPT !.pc = "mail", !.user = user], user)
    [] r.pc = "mail" ->
         IF r.mail = "raise"
         THEN Goes(Returns(r, 500, "email_sending_failed"), row)
         ELSE Goes(Returns(r, 200, "success"), row)

\* resend_verification that creates the account it does not find (mutant).
resend_verification_step_create(r, row, t) ==
  CASE r.pc = "get" ->
         IF ~row.exists
           THEN Goes([Loaded(r, create_user) EXCEPT !.pc = "setcode"], create_user)
         ELSE IF row.is_email_verified
           THEN Goes(Returns(Loaded(r, row), 200, "already_verified"), row)
         ELSE Goes([Loaded(r, row) EXCEPT !.pc = "setcode"], row)
    [] r.pc = "setcode" ->
         LET user == set_verification_code(r.user, r.gen, t)
         IN  Goes([r EXCEPT !.pc = "mail", !.user = user], user)
    [] r.pc = "mail" ->
         IF r.mail = "raise"
         THEN Goes(Returns(r, 500, "email_sending_failed"), row)
         ELSE Goes(Returns(r, 200, "success"), row)

\* resend_verification that dispatches the mail first and stores the code
\* only when the dispatch did not raise (mutant).
resend_verification_step_mailfirst(r, row, t) ==
  CASE r.pc = "get" ->
         IF ~row.exists THEN Goes(Returns(r, 404, "user_not_found"), row)
         ELSE IF row.is_email_verified
           THEN Goes(Returns(Loaded(r, row), 200, "already_verified"), row)
         ELSE Goes([Loaded(r, row) EXCEPT !.pc = "mail"], row)
    [] r.pc = "mail" ->
         IF r.mail = "raise"
         THEN Goes(Returns(r, 500, "email_sending_failed"), row)
         ELSE Goes([r EXCEPT !.pc = "setcode"], row)
    [] r.pc = "setcode" ->
         LET user == set_verification_code(r.user, r.gen, t)
         IN  Goes(Returns([r EXCEPT !.user = user], 200, "success"), user)

\* views.resend_verification: get the user; a verified user is answered at
\* once; otherwise set_verification_code(new code) saves the instance, then
\* the mail is dispatched and only an exception makes the response an error.
resend_verification_step(r, row, t) ==
  CASE r.pc = "get" ->
         IF ~row.exists THEN Goes(Returns(r, 404, "user_not_found"), row)
         ELSE IF row.is_email_verified
           THEN Goes(Returns(Loaded(r, row), 200, "already_verified"), row)
         ELSE Goes([Loaded(r, row) EXCEPT !.pc = "setcode"], row)
    [] r.pc = "setcode" ->
         LET user == set_verification_code(r.user, r.gen, t)
         IN  Goes([r EXCEPT !.pc = "mail", !.user = user], user)
    [] r.pc = "mail" ->
         IF r.mail = "raise"
         THEN Goes(Returns(r, 500, "email_sending_failed"), row)
         ELSE Goes(Returns(r, 200, "success"), row)

\* verification_email.send_verification_email: the second issue endpoint;
\* it stores the code with User.generate_verification_code.
send_verification_email_step(r, row, t) ==
  CASE r.pc = "get" ->
         IF ~row.exists THEN Goes(Returns(r, 404, "user_not_found"), row)
         ELSE IF row.is_email_verified
           THEN Goes(Returns(Loaded(r, row), 200, "already_verified"), row)
         ELSE Goes([Loaded(r, row) EXCEPT !.pc = "setcode"], row)
    [] r.pc = "setcode" ->
         LET user == user_generate_verification_code(r.user, r.gen, t)
         IN  Goes([r EXCEPT !.pc = "mail", !.user = user], user)
    [] r.pc = "mail" ->
         IF r.mail = "raise"
         THEN Goes(Returns(r, 500, "send_failed"), row)
         ELSE Goes(Returns(r, 200, "success"), row)

\* register_view's email_status: "sent" unless the dispatch was skipped
\* (settings.EMAIL_DELIVERY_CHECK off) or raised.
email_status(mail) ==
  CASE mail = "skipped" -> "skipped"
    [] mail = "raise" -> "failed"
    [] OTHER -> "sent"

\* The serializer without the read_only declaration (mutant).
validated_data_writable(data) == data

\* UserSerializer: is_email_verified is declared read_only, so a submitted
\* value never reaches validated_data.
validated_data(data) == "absent"

\* UserSerializer.create: User.objects.create_user(**validated_data); a
\* validated is_email_verified would be set on the new account.
serializer_create_user(v) ==
  IF v = "absent" THEN create_user
  ELSE [create_user EXCEPT !.is_email_verified = (v = "true")]

\* register_view that dispatches the mail first and stores the code only
\* when the dispatch did not raise (mutant).
register_view_step_mailfirst(r, row, t) ==
  CASE r.pc = "get" ->
         IF row.exists THEN Goes(Returns(r, 400, "invalid"), row)
         ELSE Goes([Loaded(r, create_user) EXCEPT !.pc = "mail"], create_user)
    [] r.pc = "mail" ->
         IF r.mail = "raise" THEN Goes(Returns(r, 201, "failed"), row)
         ELSE Goes([r EXCEPT !.pc = "setcode"], row)
    [] r.pc = "setcode" ->
         LET user == set_verification_code(r.user, r.gen, t)
         IN  Goes(Returns([r EXCEPT !.user = user], 201, email_status(r.mail)), user)

\* views.register_view: the serializer rejects a taken email; otherwise the
\* account is created, set_verification_code saves the first code and the
\* response is 201 whatever the mail dispatch did.
register_view_step(r, row, t) ==
  CASE r.pc = "get" ->
         IF row.exists THEN Goes(Returns(r, 400, "invalid"), row)
         ELSE LET user == serializer_create_user(validated_data(r.data))
              IN  Goes([Loaded(r, user) EXCEPT !.pc = "setcode"], user)
    [] r.pc = "setcode" ->
         LET user == set_verification_code(r.user, r.gen, t)
         IN  Goes([r EXCEPT !.pc = "mail", !.user = user], user)
    [] r.pc = "mail" -> Goes(Returns(r, 201, email_status(r.mail)), row)

\* views.debug_get_verification_code: refused unless settings.DEBUG (r.flag);
\* an unverified user without a code gets one, otherwise nothing is written.
debug_get_verification_code_step(r, row, t) ==
  CASE r.pc = "get" ->
         IF ~r.flag THEN Goes(Returns(r, 403, "forbidden"), row)
         ELSE IF ~row.exists THEN Goes(Returns(r, 404, "user_not_found"), row)
         ELSE IF row.is_email_verified
           THEN Goes(Returns(Loaded(r, row), 200, "already_verified"), row)
         ELSE IF Falsy(row.verification_code)
                 \/ row.verification_code_created = NoTime
           THEN Goes([Loaded(r, row) EXCEPT !.pc = "setcode"], row)
         ELSE Goes(Returns(Loaded(r, row), 200, "code"), row)
    [] r.pc = "setcode" ->
         LET user == set_verification_code(r.user, r.gen, t)
         IN  Goes(Returns([r EXCEPT !.user = user], 200, "code"), user)

\* views.debug_direct_verify: verifies an unverified user without any code.
debug_direct_verify_step(r, row, t) ==
  CASE r.pc = "get" ->
         IF ~row.exists THEN Goes(Returns(r, 404, "user_not_found"), row)
         ELSE IF row.is_email_verified
           THEN Goes(Returns(Loaded(r, row), 200, "already_verified"), row)
         ELSE Goes([Loaded(r, row) EXCEPT !.pc = "clear",
                      !.user = [row EXCEPT !.is_email_verified = TRUE]], row)
    [] r.pc = "clear" ->
         LET user == clear_verification_code(r.user)
         IN  Goes([r EXCEPT !.pc = "save", !.user = user], user)
    [] r.pc = "save" -> Goes(Returns(r, 200, "verified_without_code"), r.user)

\* management command verify_user: as debug_direct_verify, with one save.
cmd_verify_user_step(r, row, t) ==
  CASE r.pc = "get" ->
         IF ~row.exists THEN Goes(Returns(r, 1, "command_error"), row)
         ELSE IF row.is_email_verified
           THEN Goes(Returns(Loaded(r, row), 0, "already_verified"), row)
         ELSE Goes([Loaded(r, row) EXCEPT !.pc = "save",
                      !.user = [row EXCEPT !.is_email_verified = TRUE,
                                           !.verification_code = None,
                                           !.verification_code_created = NoTime]],
                   row)
    [] r.pc = "save" -> Goes(Returns(r, 0, "verified"), r.user)

\* management command test_email_verification: takes the existing user as it
\* is (or creates one with --create-user, r.flag), stores a new code with
\* set_verification_code, saves again and sends the mail.
cmd_test_email_verification_step(r, row, t) ==
  CASE r.pc = "get" ->
         IF row.exists THEN Goes([Loaded(r, row) EXCEPT !.pc = "setcode"], row)
         ELSE IF ~r.flag THEN Goes(Returns(r, 0, "no_user"), row)
         ELSE Goes([Loaded(r, create_user) EXCEPT !.pc = "setcode"], create_user)
    [] r.pc = "setcode" ->
         LET user == set_verification_code(r.user, r.gen, t)
         IN  Goes([r EXCEPT !.pc = "save", !.user = user], user)
    [] r.pc = "save" -> Goes([r EXCEPT !.pc = "mail"], r.user)
    [] r.pc = "mail" ->
         IF r.mail = "sent" THEN Goes(Returns(r, 0, "mail_sent"), row)
         ELSE Goes(Returns(r, 0, "mail_failed"), row)

\* management command get_verification_code: reads the user and reports the
\* code as unexpired when time_left = max(0, timeout - time_passed) > 0.
cmd_get_verification_code_step(r, row, t) ==
  CASE r.pc = "get" ->
         IF ~row.exists THEN Goes(Returns(r, 1, "command_error"), row)
         ELSE IF Falsy(row.verification_code)
           THEN Goes(Returns(Loaded(r, row), 0, "no_code"), row)
         ELSE IF row.verification_code_created = NoTime
           THEN Goes(Returns(Loaded(r, row), 0, "no_creation_time"), row)
         ELSE LET time_passed == t - row.verification_code_created
                  left == EMAIL_VERIFICATION_TIMEOUT - time_passed
                  time_left == IF left > 0 THEN left ELSE 0
              IN  IF time_left > 0
                  THEN Goes(Returns(Loaded(r, row), 0, "unexpired"), row)
                  ELSE Goes(Returns(Loaded(r, row), 0, "expired"), row)

\* UserViewSet.create (POST /users/): UserSerializer.create makes the account
\* from the validated data and issues no code.
users_create_step(r, row, t) ==
  CASE r.pc = "get" ->
         IF row.exists THEN Goes(Returns(r, 400, "invalid"), row)
         ELSE LET user == serializer_create_user(validated_data(r.data))
              IN  Goes(Returns(Loaded(r, user), 201, "created"), user)

\* UserViewSet.update that sets the submitted is_email_verified on the
\* instance without passing it through the serializer's validation (mutant).
users_update_step_raw(r, row, t) ==
  CASE r.pc = "get" ->
         IF ~row.exists THEN Goes(Returns(r, 404, "not_found"), row)
         ELSE LET v == r.data
                  user == IF v = "absent" THEN row
                          ELSE [row EXCEPT !.is_email_verified = (v = "true")]
              IN  Goes([Loaded(r, row) EXCEPT !.pc = "save", !.user = user], row)
    [] r.pc = "save" -> Goes(Returns(r, 200, "updated"), r.user)

\* UserViewSet.update / partial_update: get_object, UserSerializer.update
\* sets the validated attributes on the instance and saves it.
users_update_step(r, row, t) ==
  CASE r.pc = "get" ->
         IF ~row.exists THEN Goes(Returns(r, 404, "not_found"), row)
         ELSE LET v == validated_data(r.data)
                  user == IF v = "absent" THEN row
                          ELSE [row EXCEPT !.is_email_verified = (v = "true")]
              IN  Goes([Loaded(r, row) EXCEPT !.pc = "save", !.user = user], row)
    [] r.pc = "save" -> Goes(Returns(r, 200, "updated"), r.user)

\* The operations of the model.
ConsumeOps == {"verify_email", "verify_code"}

DirectVerifyOps == {"debug_direct_verify", "cmd_verify_user"}

\* One step of the handler of request r against the row it addresses.
Step(r, row, t) ==
  CASE r.op = "verify_email" -> verify_email_step(r, row, t)
    [] r.op = "verify_code" -> verify_code_step(r, row, t)
    [] r.op = "resend_verification" -> resend_verification_step(r, row, t)
    [] r.op = "send_verification_email" -> send_verification_email_step(r, row, t)
    [] r.op = "register_view" -> register_view_step(r, row, t)
    [] r.op = "debug_get_verification_code" ->
         debug_get_verification_code_step(r, row, t)
    [] r.op = "debug_direct_verify" -> debug_direct_verify_step(r, row, t)
    [] r.op = "cmd_verify_user" -> cmd_verify_user_step(r, row, t)
    [] r.op = "cmd_test_email_verification" ->
         cmd_test_email_verification_step(r, row, t)
    [] r.op = "cmd_get_verification_code" ->
         cmd_get_verification_code_step(r, row, t)
    [] r.op = "users_create" -> users_create_step(r, row, t)
    [] r.op = "users_update" -> users_update_step(r, row, t)

\* The handler run to its response with no other request in between.
RECURSIVE Run(_, _, _)
Run(r, row, t) ==
  IF r.pc = "done" THEN Goes(r, row)
  ELSE LET n == Step(r, row, t) IN Run(n.req, n.row, t)

(* ----------------------- articles, likes, accounts --------------------- *)

\* The primary keys of the articles that can exist, and the authenticated
\* users who send like requests.
ArticleIds == {"p", "q"}

Likers == {"u", "v"}

\* Article titles as sequences of characters: "Ab", "A b", "ab" and a title
\* of one Persian letter ("U0633" stands for the character U+0633).
Titles == {<<"A", "b">>, <<"A", " ", "b">>, <<"a", "b">>, <<"U0633">>}

\* The slug a caller gives at creation: none, or "z".
GivenSlugs == {<<>>, <<"z">>}

\* Article.STATUS_CHOICES ('review' behaves as 'draft' and 'archived' do).
Statuses == {"draft", "published", "archived"}

\* The characters str.encode('ascii', 'ignore') keeps.
IsAscii(c) ==
  c \in {"A", "B", "X", "a", "b", "x", "y", "z", " ", "-", "@",
         "0", "1", "2", "3", "4", "5", "6", "7", "8", "9"}

\* str.lower on one character.
LowerChar(c) ==
  CASE c = "A" -> "a" [] c = "B" -> "b" [] c = "X" -> "x" [] OTHER -> c

\* re.sub(r'[-\s]+', '-', value): every run of blanks and hyphens becomes
\* one hyphen (acc is the output so far).
RECURSIVE Hyphenate(_, _)
Hyphenate(s, acc) ==
  IF s = <<>> THEN acc
  ELSE IF Head(s) \in {" ", "-"}
    THEN Hyphenate(Tail(s),
                   IF acc # <<>> /\ acc[Len(acc)] = "-" THEN acc
                   ELSE Append(acc, "-"))
  ELSE Hyphenate(Tail(s), Append(acc, Head(s)))

\* str.strip('-') at both ends.
RECURSIVE StripHyphens(_)
StripHyphens(s) ==
  IF s = <<>> THEN s
  ELSE IF Head(s) = "-" THEN StripHyphens(Tail(s))
  ELSE IF s[Len(s)] = "-" THEN StripHyphens(SubSeq(s, 1, Len(s) - 1))
  ELSE s

\* django.utils.text.slugify as Article.save calls it: the non-ASCII
\* characters are dropped, the rest is lower-cased, runs of blanks and
\* hyphens become single hyphens and the ends are trimmed.
slugify(value) ==
  LET ascii == SelectSeq(value, IsAscii)
      lower == [i \in 1..Len(ascii) |-> LowerChar(ascii[i])]
  IN  StripHyphens(Hyphenate(lower, <<>>))

\* A row of the article table that does not exist.
NoArticle ==
  [exists |-> FALSE, title |-> <<>>, slug |-> <<>>, status |-> "draft",
   published_at |-> NoTime]

\* A like request that is not in flight.
IdleLike == [pc |-> "idle", article |-> "p", user |-> "u", status |-> "none"]

\* No account creation in progress.
IdleSignup ==
  [pc |-> "idle", email |-> <<>>, password |-> "none", generated |-> FALSE,
   base |-> <<>>, username |-> <<>>, counter |-> 0]

\* authenticate() returned no user.
NoAccount == [username |-> <<>>, email |-> <<>>, password |-> "none"]

\* No login has been answered yet.
NoSession == [login |-> <<>>, password |-> "none", status |-> 0, user |-> NoAccount]

\* The site right after deployment: no article, no like, no account.
SiteInit ==
  /\ articles = [a \in ArticleIds |-> NoArticle]
  /\ likes = [p \in ArticleIds \X Likers |-> 0]
  /\ liking = [s \in Slots |-> IdleLike]
  /\ accounts = {}
  /\ signup = IdleSignup
  /\ session = NoSession

(* ------------------------ sequential behaviour ------------------------- *)

\* The last completed request and its response.
Completed(r) == [op |-> r.op, email |-> r.email, resp |-> r.resp]

Init ==
  /\ db = [e \in Emails |-> NoUser]
  /\ now = 0
  /\ last = Completed(IdleReq)
  /\ reqs = [s \in Slots |-> IdleReq]
  /\ code_length = VERIFICATION_CODE_LENGTH
  /\ SiteInit

\* A whole request served with no other request in between: its final
\* state and the row it leaves.
Serve(r) == Run(r, db[r.email], now)

verify_email(e, c) ==
  LET res == Serve(NewReq("verify_email", e, c, None, "sent", FALSE, "absent"))
  IN  /\ db' = [db EXCEPT ![e] = res.row]
      /\ last' = Completed(res.req)
      /\ UNCHANGED <<now, reqs, code_length, site>>

verify_code(e, c) ==
  LET res == Serve(NewReq("verify_code", e, c, None, "sent", FALSE, "absent"))
  IN  /\ db' = [db EXCEPT ![e] = res.row]
      /\ last' = Completed(res.req)
      /\ UNCHANGED <<now, reqs, code_length, site>>

resend_verification(e, g, m) ==
  LET res == Serve(NewReq("resend_verification", e, None, g, m, FALSE, "absent"))
  IN  /\ g \in ConfiguredCodes
      /\ db' = [db EXCEPT ![e] = res.row]
      /\ last' = Completed(res.req)
      /\ UNCHANGED <<now, reqs, code_length, site>>

send_verification_email(e, g, m) ==
  LET res == Serve(NewReq("send_verification_email", e, None, g, m, FALSE, "absent"))
  IN  /\ g \in UserCodes
      /\ db' = [db EXCEPT ![e] = res.row]
      /\ last' = Completed(res.req)
      /\ UNCHANGED <<now, reqs, code_length, site>>

register_view(e, g, m) ==
  \E d \in ClientFlags :
    LET res == Serve(NewReq("register_view", e, None, g, m, FALSE, d))
    IN  /\ g \in ConfiguredCodes
        /\ db' = [db EXCEPT ![e] = res.row]
        /\ last' = Completed(res.req)
        /\ UNCHANGED <<now, reqs, code_length, site>>

debug_get_verification_code(e, g, debug) ==
  LET res == Serve(NewReq("debug_get_verification_code", e, None, g, "sent",
                          debug, "absent"))
  IN  /\ g \in ConfiguredCodes
      /\ db' = [db EXCEPT ![e] = res.row]
      /\ last' = Completed(res.req)
      /\ UNCHANGED <<now, reqs, code_length, site>>

debug_direct_verify(e) ==
  LET res == Serve(NewReq("debug_direct_verify", e, None, None, "sent", FALSE,
                          "absent"))
  IN  /\ db' = [db EXCEPT ![e] = res.row]
      /\ last' = Completed(res.req)
      /\ UNCHANGED <<now, reqs, code_length, site>>

cmd_verify_user(e) ==
  LET res == Serve(NewReq("cmd_verify_user", e, None, None, "sent", FALSE, "absent"))
  IN  /\ db' = [db EXCEPT ![e] = res.row]
      /\ last' = Completed(res.req)
      /\ UNCHANGED <<now, reqs, code_length, site>>

cmd_test_email_verification(e, g, m, create) ==
  LET res == Serve(NewReq("cmd_test_email_verification", e, None, g, m, create,
                          "absent"))
  IN  /\ g \in ConfiguredCodes
      /\ db' = [db EXCEPT ![e] = res.row]
      /\ last' = Completed(res.req)
      /\ UNCHANGED <<now, reqs, code_length, site>>

cmd_get_verification_code(e) ==
  LET res == Serve(NewReq("cmd_get_verification_code", e, None, None, "sent",
                          FALSE, "absent"))
  IN  /\ db' = [db EXCEPT ![e] = res.row]
      /\ last' = Completed(res.req)
      /\ UNCHANGED <<now, reqs, code_length, site>>

users_create(e, d) ==
  LET res == Serve(NewReq("users_create", e, None, None, "sent", FALSE, d))
  IN  /\ db' = [db EXCEPT ![e] = res.row]
      /\ last' = Completed(res.req)
      /\ UNCHANGED <<now, reqs, code_length, site>>

users_update(e, d) ==
  LET res == Serve(NewReq("users_update", e, None, None, "sent", FALSE, d))
  IN  /\ db' = [db EXCEPT ![e] = res.row]
      /\ last' = Completed(res.req)
      /\ UNCHANGED <<now, reqs, code_length, site>>

\* The clock advances by one second.
Tick ==
  /\ now < MaxTime
  /\ now' = now + 1
  /\ UNCHANGED <<db, last, reqs, code_length, site>>

Next ==
  \/ \E e \in Emails, c \in Candidates : verify_email(e, c)
  \/ \E e \in Emails, c \in Candidates : verify_code(e, c)
  \/ \E e \in Emails, g \in Codes, m \in MailOutcomes : resend_verification(e, g, m)
  \/ \E e \in Emails, g \in UserCodes, m \in MailOutcomes : send_verification_email(e, g, m)
  \/ \E e \in Registrable, g \in Codes, m \in RegisterMailOutcomes :
       register_view(e, g, m)
  \/ \E e \in Emails, g \in Codes, debug \in BOOLEAN :
       debug_get_verification_code(e, g, debug)
  \/ \E e \in Emails : debug_direct_verify(e)
  \/ \E e \in Emails : cmd_verify_user(e)
  \/ \E e \in Emails, g \in Codes, m \in MailOutcomes :
       \E create \in {FALSE} \cup {e \in Registrable} :
         cmd_test_email_verification(e, g, m, create)
  \/ \E e \in Emails : cmd_get_verification_code(e)
  \/ \E e \in Registrable, d \in ClientFlags : users_create(e, d)
  \/ \E e \in Emails, d \in ClientFlags : users_update(e, d)
  \/ Tick

Spec == Init /\ [][Next]_vars

(* -------------------- issuing under any configuration ------------------ *)

\* A deployment configures any code length, zero included.
InitLen ==
  /\ db = [e \in Emails |-> NoUser]
  /\ now = 0
  /\ last = Completed(IdleReq)
  /\ reqs = [s \in Slots |-> IdleReq]
  /\ code_length \in 0..MaxCodeLength
  /\ SiteInit

\* The operations that issue a code, each with the generator it calls.
NextLen ==
  \/ \E e \in Emails, g \in CodeStrings, m \in MailOutcomes : resend_verification(e, g, m)
  \/ \E e \in Emails, g \in CodeStrings, m \in MailOutcomes : send_verification_email(e, g, m)
  \/ \E e \in Registrable, g \in CodeStrings, m \in RegisterMailOutcomes :
       register_view(e, g, m)
  \/ \E e \in Emails, g \in CodeStrings, debug \in BOOLEAN :
       debug_get_verification_code(e, g, debug)
  \/ \E e \in Emails, g \in CodeStrings, m \in MailOutcomes :
       \E create \in {FALSE} \cup {e \in Registrable} :
         cmd_test_email_verification(e, g, m, create)
  \/ Tick

SpecLen == InitLen /\ [][NextLen]_vars

(* --------------------------- every user state -------------------------- *)

\* Every state a stored user row can be in at time t: verified or not, with
\* no code (None or ''), or a code, and no timestamp or one from the past.
UserStates(t) ==
  [exists : {TRUE}, is_email_verified : BOOLEAN,
   verification_code : Codes \cup {None, <<>>},
   verification_code_created : {NoTime} \cup 0..t]

\* A caller that holds a User instance it loaded earlier.
Holding(e, user) ==
  [Loaded(NewReq("holder", e, None, None, "sent", FALSE, "absent"), user)
     EXCEPT !.pc = "held"]

\* What a method call on an instance yields: the value returned, the
\* instance afterwards, and whether the method called save().
Called(result, self, saved) == [result |-> result, self |-> self, saved |-> saved]

\* is_verification_code_valid that consumes the code it accepts (mutant).
User_is_verification_code_valid_consume(self, code, t) ==
  IF is_verification_code_valid(self, code, t)
  THEN Called(TRUE, clear_verification_code(self), TRUE)
  ELSE Called(FALSE, self, FALSE)

\* User.is_verification_code_valid as a method call: it assigns no
\* attribute and does not call save().
User_is_verification_code_valid(self, code, t) ==
  Called(is_verification_code_valid(self, code, t), self, FALSE)

\* User.verify_code as a method call: returns what
\* self.is_verification_code_valid(code) returns.
User_verify_code(self, code, t) ==
  LET inner == User_is_verification_code_valid(self, code, t)
  IN  Called(inner.result, inner.self, inner.saved)

\* Python's bool as a response value.
Bool(b) == IF b THEN "True" ELSE "False"

\* The holder in slot s calls user.is_verification_code_valid(c).
call_is_verification_code_valid(s, c) ==
  LET r == reqs[s]
      res == User_is_verification_code_valid(r.user, c, now)
  IN  /\ r.pc = "held"
      /\ reqs' = [reqs EXCEPT ![s].user = res.self]
      /\ db' = IF res.saved THEN [db EXCEPT ![r.email] = res.self] ELSE db
      /\ last' = [op |-> "is_verification_code_valid", email |-> r.email,
                  resp |-> Response(0, Bool(res.result))]
      /\ UNCHANGED <<now, code_length, site>>

\* The holder in slot s calls user.verify_code(c).
call_verify_code(s, c) ==
  LET r == reqs[s]
      res == User_verify_code(r.user, c, now)
  IN  /\ r.pc = "held"
      /\ reqs' = [reqs EXCEPT ![s].user = res.self]
      /\ db' = IF res.saved THEN [db EXCEPT ![r.email] = res.self] ELSE db
      /\ last' = [op |-> "user_verify_code", email |-> r.email,
                  resp |-> Response(0, Bool(res.result))]
      /\ UNCHANGED <<now, code_length, site>>

\* What the stored row of a held instance can be: the instance as loaded,
\* or the row a consume served since has left (the instance is stale).
StoredFor(user) ==
  {user, clear_verification_code([user EXCEPT !.is_email_verified = TRUE])}

\* Any clock value and a caller holding an instance in any user state, the
\* stored row being that state or a later one.
InitQuery ==
  /\ now \in 0..MaxTime
  /\ \E e \in Registrable, user \in UserStates(now) :
       /\ reqs = [s \in Slots |-> IF s = 1 THEN Holding(e, user) ELSE IdleReq]
       /\ db \in {[x \in Emails |-> IF x = e THEN row ELSE NoUser] :
                    row \in StoredFor(user)}
  /\ last = Completed(IdleReq)
  /\ code_length = VERIFICATION_CODE_LENGTH
  /\ SiteInit

NextQuery ==
  \/ \E s \in Slots, c \in Candidates : call_is_verification_code_valid(s, c)
  \/ \E s \in Slots, c \in Candidates : call_verify_code(s, c)

SpecQuery == InitQuery /\ [][NextQuery]_vars

\* Any stored row and any clock value, with no request in flight.
InitUser ==
  /\ now \in 0..MaxTime
  /\ \E e \in Registrable :
       db \in {[x \in Emails |-> IF x = e THEN row ELSE NoUser] :
                 row \in UserStates(now) \cup {NoUser}}
  /\ last = Completed(IdleReq)
  /\ reqs = [s \in Slots |-> IdleReq]
  /\ code_length = VERIFICATION_CODE_LENGTH
  /\ SiteInit

\* The two consume endpoints and the support command, from any user state.
NextUser ==
  \/ \E e \in Emails, c \in Candidates : verify_email(e, c)
  \/ \E e \in Emails, c \in Candidates : verify_code(e, c)
  \/ \E e \in Emails : cmd_get_verification_code(e)
  \/ Tick

SpecUser == InitUser /\ [][NextUser]_vars

(* ------------------------------ articles ------------------------------- *)

\* Article.save that stamps published_at on every save with status
\* 'published' (mutant).
Article_save_restamp(article, t) ==
  LET slugged == IF article.slug = <<>>
                 THEN [article EXCEPT !.slug = slugify(article.title)]
                 ELSE article
  IN  IF slugged.status = "published"
      THEN [slugged EXCEPT !.published_at = t]
      ELSE slugged

\* Article.save up to super().save(): the slug is derived when it is empty,
\* published_at is set when the status is 'published' and it is not set yet.
Article_save(article, t) ==
  LET slugged == IF article.slug = <<>>
                 THEN [article EXCEPT !.slug = slugify(article.title)]
                 ELSE article
  IN  IF slugged.status = "published" /\ slugged.published_at = NoTime
      THEN [slugged EXCEPT !.published_at = t]
      ELSE slugged

\* slug = SlugField(unique=True): another row already has this slug.
SlugTaken(a, slug) ==
  \E b \in ArticleIds \ {a} : articles[b].exists /\ articles[b].slug = slug

\* A new article is saved for the first time (ArticleViewSet.perform_create
\* gives no slug; Article(...).save() may).  A duplicate slug raises
\* IntegrityError and stores nothing.
article_create(a, title, slug, status) ==
  LET article == Article_save([exists |-> TRUE, title |-> title, slug |-> slug,
                               status |-> status, published_at |-> NoTime], now)
  IN  /\ ~articles[a].exists
      /\ articles' = IF SlugTaken(a, article.slug) THEN articles
                     ELSE [articles EXCEPT ![a] = article]
      /\ UNCHANGED <<now, verification, likes, liking, accounts, signup, session>>

\* A stored article gets a title and a status and is saved again.
article_update(a, title, status) ==
  LET article == Article_save([articles[a] EXCEPT !.title = title,
                                                  !.status = status], now)
  IN  /\ articles[a].exists
      /\ articles' = IF SlugTaken(a, article.slug) THEN articles
                     ELSE [articles EXCEPT ![a] = article]
      /\ UNCHANGED <<now, verification, likes, liking, accounts, signup, session>>

NextArticle ==
  \/ \E a \in ArticleIds, title \in Titles, slug \in GivenSlugs, status \in Statuses :
       article_create(a, title, slug, status)
  \/ \E a \in ArticleIds, title \in Titles, status \in Statuses :
       article_update(a, title, status)
  \/ Tick

SpecArticle == Init /\ [][NextArticle]_vars

(* -------------------------------- likes --------------------------------- *)

\* The insert of get_or_create without the unique constraint (mutant).
insert_like_unchecked(rows, key) ==
  [rows |-> [rows EXCEPT ![key] = @ + 1], created |-> TRUE]

\* The insert of get_or_create under unique_together = ['article', 'user']:
\* a second row for the pair raises IntegrityError, which get_or_create
\* answers with the existing row.
insert_like(rows, key) ==
  IF rows[key] = 0
  THEN [rows |-> [rows EXCEPT ![key] = 1], created |-> TRUE]
  ELSE [rows |-> rows, created |-> FALSE]

\* ArticleViewSet.like, first database access: get_object(), then the get
\* of get_or_create.
like_get(s, a, u) ==
  /\ liking[s].pc = "idle"
  /\ liking' = [liking EXCEPT ![s] =
       IF ~articles[a].exists
         THEN [pc |-> "done", article |-> a, user |-> u, status |-> "not found"]
       ELSE IF likes[<<a, u>>] > 0
         THEN [pc |-> "done", article |-> a, user |-> u, status |-> "already liked"]
       ELSE [pc |-> "create", article |-> a, user |-> u, status |-> "none"]]
  /\ UNCHANGED <<now, verification, articles, likes, accounts, signup, session>>

\* ArticleViewSet.like, second database access: the create of get_or_create,
\* then the response.
like_create(s) ==
  LET r == liking[s]
      ins == insert_like(likes, <<r.article, r.user>>)
  IN  /\ r.pc = "create"
      /\ likes' = ins.rows
      /\ liking' = [liking EXCEPT ![s] =
           [r EXCEPT !.pc = "done",
                     !.status = IF ins.created THEN "liked" ELSE "already liked"]]
      /\ UNCHANGED <<now, verification, articles, accounts, signup, session>>

\* The response is delivered and the slot is free again.
like_respond(s) ==
  /\ liking[s].pc = "done"
  /\ liking' = [liking EXCEPT ![s] = IdleLike]
  /\ UNCHANGED <<now, verification, articles, likes, accounts, signup, session>>

NextLike ==
  \/ \E a \in ArticleIds : article_create(a, <<"A", "b">>, <<>>, "draft")
  \/ \E s \in Slots, a \in ArticleIds, u \in Likers : like_get(s, a, u)
  \/ \E s \in Slots : like_create(s)
  \/ \E s \in Slots : like_respond(s)

SpecLike == Init /\ [][NextLike]_vars

(* ------------------------------ accounts -------------------------------- *)

\* The emails accounts are created with ("a@x", "a@y", "a@X", "b@x"), the
\* usernames a client gives (none, "a1", "b@x") and the passwords.
AccountEmails ==
  {<<"a", "@", "x">>, <<"a", "@", "y">>, <<"a", "@", "X">>, <<"b", "@", "x">>}

GivenUsernames == {<<>>, <<"a", "1">>, <<"b", "@", "x">>}

Passwords == {"pw1", "pw2"}

\* What a client types into the login field: the emails, the given and the
\* generated usernames, and a login nobody has.
LoginStrings ==
  AccountEmails \cup (GivenUsernames \ {<<>>})
    \cup {<<"a">>, <<"b">>, <<"a", "2">>, <<"z">>}

\* s.split(c)[0]: the characters before the first c.
RECURSIVE Before(_, _)
Before(s, c) ==
  IF s = <<>> \/ Head(s) = c THEN <<>>
  ELSE <<Head(s)>> \o Before(Tail(s), c)

\* str(n) for a natural number.
DigitChar(d) == <<"0", "1", "2", "3", "4", "5", "6", "7", "8", "9">>[d + 1]

RECURSIVE Decimal(_)
Decimal(n) ==
  IF n < 10 THEN <<DigitChar(n)>>
  ELSE Decimal(n \div 10) \o <<DigitChar(n % 10)>>

\* BaseUserManager.normalize_email: the part after the last '@' is
\* lower-cased.
normalize_email(email) ==
  LET ats == {i \in 1..Len(email) : email[i] = "@"}
  IN  IF ats = {} THEN email
      ELSE LET at == CHOOSE i \in ats : \A j \in ats : j <= i
           IN  [k \in 1..Len(email) |->
                  IF k > at THEN LowerChar(email[k]) ELSE email[k]]

Usernames(accts) == {u.username : u \in accts}

AccountEmailsOf(accts) == {u.email : u \in accts}

\* UserSerializer.create up to the loop: the serializer has validated the
\* data (the email is not taken); without a username the local part of the
\* email is the first candidate.
serializer_create_begin(email, username, password) ==
  /\ signup.pc = "idle"
  /\ Cardinality(accounts) < MaxAccounts
  /\ email \notin AccountEmailsOf(accounts)
  /\ signup' =
       IF username = <<>>
       THEN [pc |-> "loop", email |-> email, password |-> password,
             generated |-> TRUE, base |-> Before(email, "@"),
             username |-> Before(email, "@"), counter |-> 1]
       ELSE [pc |-> "create", email |-> email, password |-> password,
             generated |-> FALSE, base |-> <<>>, username |-> username,
             counter |-> 0]
  /\ UNCHANGED <<now, verification, articles, likes, liking, accounts, session>>

\* The loop with the counter appended to the last candidate instead of the
\* base (mutant).
serializer_create_loop_chain ==
  /\ signup.pc = "loop"
  /\ signup' =
       IF signup.username \in Usernames(accounts)
       THEN [signup EXCEPT !.username = signup.username \o Decimal(signup.counter),
                           !.counter = signup.counter + 1]
       ELSE [signup EXCEPT !.pc = "create"]
  /\ UNCHANGED <<now, verification, articles, likes, liking, accounts, session>>

\* One test of `while User.objects.filter(username=username).exists()` and,
\* when it is true, the loop body.
serializer_create_loop ==
  /\ signup.pc = "loop"
  /\ signup' =
       IF signup.username \in Usernames(accounts)
       THEN [signup EXCEPT !.username = signup.base \o Decimal(signup.counter),
                           !.counter = signup.counter + 1]
       ELSE [signup EXCEPT !.pc = "create"]
  /\ UNCHANGED <<now, verification, articles, likes, liking, accounts, session>>

\* User.objects.create_user: the row is inserted unless the unique username
\* or the unique email refuses it (IntegrityError).
serializer_create_save ==
  LET user == [username |-> signup.username,
               email |-> normalize_email(signup.email),
               password |-> signup.password]
  IN  /\ signup.pc = "create"
      /\ accounts' =
           IF user.username \in Usernames(accounts)
                \/ user.email \in AccountEmailsOf(accounts)
           THEN accounts
           ELSE accounts \cup {user}
      /\ signup' = IdleSignup
      /\ UNCHANGED <<now, verification, articles, likes, liking, session>>

\* EmailOrUsernameModelBackend.authenticate: a login with an '@' is looked
\* up as an email, any other as a username; the user is returned when the
\* password checks.
authenticate(accts, login, password) ==
  LET found == IF \E i \in 1..Len(login) : login[i] = "@"
               THEN {u \in accts : u.email = login}
               ELSE {u \in accts : u.username = login}
  IN  IF found = {} THEN NoAccount
      ELSE LET user == CHOOSE u \in found : TRUE
           IN  IF user.password = password THEN user ELSE NoAccount

\* views.login_view: 400 without login or password, 401 when authenticate
\* returns no user, else 200 with the user.
login_view(login, password) ==
  LET user == authenticate(accounts, login, password)
  IN  /\ session' =
           IF login = <<>> \/ password = "" THEN
             [login |-> login, password |-> password, status |-> 400,
              user |-> NoAccount]
           ELSE IF user = NoAccount THEN
             [login |-> login, password |-> password, status |-> 401,
              user |-> NoAccount]
           ELSE [login |-> login, password |-> password, status |-> 200,
                 user |-> user]
      /\ UNCHANGED <<now, verification, articles, likes, liking, accounts, signup>>

NextSignup ==
  \/ \E email \in AccountEmails, username \in GivenUsernames, password \in Passwords :
       serializer_create_begin(email, username, password)
  \/ serializer_create_loop
  \/ serializer_create_save

\* Account creation alone; a request that has entered UserSerializer.create
\* keeps running.
SpecSignup ==
  /\ Init /\ [][NextSignup]_vars
  /\ WF_vars(serializer_create_loop)
  /\ WF_vars(serializer_create_save)

NextAccounts ==
  \/ NextSignup
  \/ \E login \in LoginStrings \cup {<<>>}, password \in Passwords :
       login_view(login, password)

\* Account creation and logins.
SpecAccounts == Init /\ [][NextAccounts]_vars

(* ------------------------ concurrent behaviour ------------------------- *)

\* The first database access of request r as it arrives.
Arrive(r) == Step(r, db[r.email], now)

\* The last completed request after a step that left request r.
LastAfter(r) == IF r.pc = "done" THEN Completed(r) ELSE last

\* A request arrives in a free slot and makes its first database access.
c_verify_email(s, e, c) ==
  LET n == Arrive(NewReq("verify_email", e, c, None, "sent", FALSE, "absent"))
  IN  /\ reqs[s].pc = "idle"
      /\ reqs' = [reqs EXCEPT ![s] = n.req]
      /\ db' = [db EXCEPT ![e] = n.row]
      /\ last' = LastAfter(n.req)
      /\ UNCHANGED <<now, code_length, site>>

c_verify_code(s, e, c) ==
  LET n == Arrive(NewReq("verify_code", e, c, None, "sent", FALSE, "absent"))
  IN  /\ reqs[s].pc = "idle"
      /\ reqs' = [reqs EXCEPT ![s] = n.req]
      /\ db' = [db EXCEPT ![e] = n.row]
      /\ last' = LastAfter(n.req)
      /\ UNCHANGED <<now, code_length, site>>

c_resend_verification(s, e, g, m) ==
  LET n == Arrive(NewReq("resend_verification", e, None, g, m, FALSE, "absent"))
  IN  /\ reqs[s].pc = "idle"
      /\ g \in ConfiguredCodes
      /\ reqs' = [reqs EXCEPT ![s] = n.req]
      /\ db' = [db EXCEPT ![e] = n.row]
      /\ last' = LastAfter(n.req)
      /\ UNCHANGED <<now, code_length, site>>

c_register_view(s, e, g, m) ==
  LET n == Arrive(NewReq("register_view", e, None, g, m, FALSE, "absent"))
  IN  /\ reqs[s].pc = "idle"
      /\ g \in ConfiguredCodes
      /\ reqs' = [reqs EXCEPT ![s] = n.req]
      /\ db' = [db EXCEPT ![e] = n.row]
      /\ last' = LastAfter(n.req)
      /\ UNCHANGED <<now, code_length, site>>

\* The request in slot s makes its next database access, or responds.
Continue(s) ==
  /\ reqs[s].pc \notin {"idle", "done"}
  /\ LET r == reqs[s]
         n == Step(r, db[r.email], now)
     IN  /\ reqs' = [reqs EXCEPT ![s] = n.req]
         /\ db' = [db EXCEPT ![r.email] = n.row]
         /\ last' = LastAfter(n.req)
  /\ UNCHANGED <<now, code_length, site>>

\* With no request in flight the responses are collected and the slots freed:
\* the requests that share the slots between two of these steps are the
\* only writers of the table in that time.
Collect ==
  /\ \A s \in Slots : reqs[s].pc \in {"idle", "done"}
  /\ \E s \in Slots : reqs[s].pc = "done"
  /\ reqs' = [s \in Slots |-> IdleReq]
  /\ UNCHANGED <<db, now, last, code_length, site>>

NextConc ==
  \/ \E s \in Slots, e \in Emails, c \in Candidates : c_verify_email(s, e, c)
  \/ \E s \in Slots, e \in Emails, c \in Candidates : c_verify_code(s, e, c)
  \/ \E s \in Slots, e \in Emails, g \in Codes, m \in MailOutcomes :
       c_resend_verification(s, e, g, m)
  \/ \E s \in Slots, e \in Registrable, g \in Codes,
        m \in RegisterMailOutcomes :
       c_register_view(s, e, g, m)
  \/ \E s \in Slots : Continue(s)
  \/ Collect
  \/ Tick

SpecConc == Init /\ [][NextConc]_vars

(* ------------------------------ claims --------------------------------- *)

\* The specification's validity condition: a code and its timestamp are
\* stored, the elapsed seconds do not exceed the timeout, and the candidate
\* is the stored string.
CodeAccepted(user, c, t) ==
  /\ user.verification_code # None
  /\ user.verification_code_created # NoTime
  /\ t - user.verification_code_created <= EMAIL_VERIFICATION_TIMEOUT
  /\ c = user.verification_code

Verified200 == Response(200, "success")

\* The codes the issuing operations store under the default configuration.
IssuedCodes == Codes \cup UserCodes

\* What every step of an operation in ops addressed to e satisfies, whatever
\* its other inputs: it leaves its name and address in `last` and the clock
\* alone.
ServedBy(ops, e) == last'.op \in ops /\ last'.email = e /\ now' = now

\* C1: in every state reachable by the sequential operations, a user's
\* verification_code is set if and only if verification_code_created is set.
C1_CodeIffCreated ==
  \A e \in Emails :
    (db[e].verification_code = None) <=> (db[e].verification_code_created = NoTime)

\* A resend has just stored a code and its timestamp.
C1_Witness ==
  /\ last.op = "resend_verification" /\ last.resp.code = "success"
  /\ db[last.email].verification_code \in Codes
  /\ db[last.email].verification_code_created # NoTime

\* C2: in every reachable state a user whose is_email_verified flag is true
\* has no verification_code and no verification_code_created.
C2_VerifiedHasNoCode ==
  \A e \in Emails :
    db[e].is_email_verified =>
      /\ db[e].verification_code = None
      /\ db[e].verification_code_created = NoTime

\* C3: is_email_verified is monotonic: no completed operation makes a
\* verified user unverified.
C3_VerifiedMonotonic ==
  [][\A e \in Emails : db[e].is_email_verified => db'[e].is_email_verified]_vars

\* A users API update carrying is_email_verified has acted on a verified user.
C3_Witness ==
  /\ last.op = "users_update" /\ last.resp.code = "updated"
  /\ db[last.email].is_email_verified

\* C4: for one issued code at most one consume request obtains Verified,
\* also when two consume requests for the same user interleave.
C4_SingleUse ==
  \A s1, s2 \in Slots :
    ~ /\ s1 # s2
      /\ reqs[s1].pc = "done" /\ reqs[s2].pc = "done"
      /\ reqs[s1].op \in ConsumeOps /\ reqs[s2].op \in ConsumeOps
      /\ reqs[s1].email = reqs[s2].email
      /\ reqs[s1].resp = Verified200 /\ reqs[s2].resp = Verified200

\* Request q saw the record request p left and the table holds what q left:
\* the two ran as p then q.
RanInOrder(p, q) ==
  /\ q.read = p.user
  /\ db[q.email] = q.user

\* C5: when a resend and a consume for the same user interleave, the final
\* record and the two responses are those of one of the two serial orders.
C5_Serializable ==
  \A s1, s2 \in Slots :
    ( /\ reqs[s1].pc = "done" /\ reqs[s2].pc = "done"
      /\ reqs[s1].op = "resend_verification" /\ reqs[s2].op \in ConsumeOps
      /\ reqs[s1].email = reqs[s2].email
      /\ reqs[s1].read.exists /\ reqs[s2].read.exists )
    => RanInOrder(reqs[s1], reqs[s2]) \/ RanInOrder(reqs[s2], reqs[s1])

\* C6 as stated: a user becomes verified only by a consume whose candidate is
\* the stored, unexpired code.
C6_OnlyByConsume ==
  [][\A e \in Emails :
       (~db[e].is_email_verified /\ db'[e].is_email_verified) =>
         \E c \in Candidates :
           /\ verify_email(e, c) \/ verify_code(e, c)
           /\ CodeAccepted(db[e], c, now)]_vars

\* C6 amended: a user becomes verified only by a consume whose candidate is
\* the stored, unexpired code, or by a direct verification (the
\* debug_direct_verify endpoint or the verify_user command), which takes no
\* candidate.
C6_OnlyByConsumeOrDirect ==
  [][\A e \in Emails :
       (~db[e].is_email_verified /\ db'[e].is_email_verified) =>
         \/ \E c \in Candidates :
              /\ verify_email(e, c) \/ verify_code(e, c)
              /\ CodeAccepted(db[e], c, now)
         \/ debug_direct_verify(e)
         \/ cmd_verify_user(e)]_vars

\* A consume has verified a user.
C6_Witness ==
  /\ last.op \in ConsumeOps /\ last.resp = Verified200
  /\ db[last.email].is_email_verified

C8_FailsClosed ==
  \A e \in Emails :
    (db[e].exists /\ db[e].verification_code = None) =>
      \A c \in Candidates : ~is_verification_code_valid(db[e], c, now)

\* A successful consume has cleared the code of an existing user.
C8_Witness ==
  /\ last.op = "verify_email" /\ last.resp = Verified200
  /\ db[last.email].exists /\ db[last.email].verification_code = None

\* C9: a code issued at t0 is valid at every time from t0 to t0 + timeout,
\* the boundary included, and not valid from t0 + timeout + 1 on.
C9_ExpiryBoundary ==
  \A e \in Emails :
    LET c == db[e].verification_code
        t0 == db[e].verification_code_created
    IN  (c \in Codes /\ t0 # NoTime) =>
          /\ (t0 <= now /\ now <= t0 + EMAIL_VERIFICATION_TIMEOUT) =>
               is_verification_code_valid(db[e], c, now)
          /\ (now >= t0 + EMAIL_VERIFICATION_TIMEOUT + 1) =>
               ~is_verification_code_valid(db[e], c, now)

\* The clock stands exactly at the boundary of a stored code.
C9_Witness ==
  \E e \in Emails :
    /\ db[e].verification_code \in Codes
    /\ db[e].verification_code_created # NoTime
    /\ now = db[e].verification_code_created + EMAIL_VERIFICATION_TIMEOUT

\* C10: verify_email on an existing unverified user with a valid candidate
\* sets is_email_verified, clears the code and its timestamp in the stored
\* record and answers with the success outcome.
C10_ConsumeSuccess ==
  [][\A e \in Emails, c \in Candidates :
       ( /\ verify_email(e, c)
         /\ db[e].exists /\ ~db[e].is_email_verified
         /\ CodeAccepted(db[e], c, now) )
       => /\ db'[e].exists /\ db'[e].is_email_verified
          /\ db'[e].verification_code = None
          /\ db'[e].verification_code_created = NoTime
          /\ last'.resp = Verified200]_vars

\* verify_email has answered success and the record is verified and cleared.
C10_Witness ==
  /\ last.op = "verify_email" /\ last.resp = Verified200
  /\ db[last.email].is_email_verified
  /\ db[last.email].verification_code = None
  /\ db[last.email].verification_code_created = NoTime

\* The candidates a consume request carries: the handlers answer a request
\* whose code field is empty or absent as malformed before looking the user
\* up, so a consume is a request with a non-empty code field.
Supplied == {c \in Candidates : ~Falsy(c)}

InvalidOrExpired == Response(400, "invalid_code")

\* C11: verify_email or verify_code on an existing unverified user with a
\* candidate that is wrong or expired answers InvalidOrExpired and leaves
\* every field of every stored record as it was, so the record is untouched
\* after any number of failed attempts.
C11_FailedConsumeNoChange ==
  [][\A e \in Emails, c \in Supplied :
       ( /\ ServedBy(ConsumeOps, e)
         /\ db[e].exists /\ ~db[e].is_email_verified
         /\ ~CodeAccepted(db[e], c, now)
         /\ verify_email(e, c) \/ verify_code(e, c) )
       => /\ db' = db
          /\ last'.resp = InvalidOrExpired]_vars

\* A consume has failed on an unverified user whose unexpired code is still
\* stored with its timestamp.
C11_Witness ==
  /\ last.op \in ConsumeOps /\ last.resp = InvalidOrExpired
  /\ db[last.email].exists /\ ~db[last.email].is_email_verified
  /\ db[last.email].verification_code \in Codes
  /\ db[last.email].verification_code_created # NoTime
  /\ now - db[last.email].verification_code_created <= EMAIL_VERIFICATION_TIMEOUT

AlreadyVerified == Response(200, "already_verified")

\* The four verification endpoints.
VerificationOps ==
  {"verify_email", "verify_code", "resend_verification",
   "send_verification_email"}

IssueOps ==
  {"register_view", "resend_verification", "send_verification_email",
   "debug_get_verification_code", "cmd_test_email_verification"}

\* C13: for an unverified user, a consume with candidate c that directly
\* follows an issue which stored c (before c expires) answers Verified and
\* verifies the user; a consume with the same c that directly follows that
\* successful consume answers AlreadyVerified.
C13_IssueConsumeConsume ==
  [][\A e \in Emails, c \in Supplied :
       ( /\ ServedBy(ConsumeOps, e)
         /\ last.op \in IssueOps \cup ConsumeOps /\ last.email = e
         /\ verify_email(e, c) \/ verify_code(e, c) ) =>
         /\ ( /\ last.op \in IssueOps /\ last.email = e
              /\ db[e].exists /\ ~db[e].is_email_verified
              /\ db[e].verification_code = c
              /\ db[e].verification_code_created # NoTime
              /\ now - db[e].verification_code_created
                   <= EMAIL_VERIFICATION_TIMEOUT )
            => (last'.resp = Verified200 /\ db'[e].is_email_verified)
         /\ ( /\ last.op \in ConsumeOps /\ last.email = e
              /\ last.resp = Verified200 )
            => (last'.resp = AlreadyVerified /\ db' = db)]_vars

\* A consume has answered AlreadyVerified on a user whose code an earlier
\* consume has cleared.
C13_Witness ==
  /\ last.op \in ConsumeOps /\ last.resp = AlreadyVerified
  /\ db[last.email].is_email_verified
  /\ db[last.email].verification_code = None
  /\ db[last.email].verification_code_created = NoTime

\* C14: when an issue on an unverified user directly follows an issue on the
\* same user, the code the first issue stored is no longer valid after the
\* second, whichever codes the generator returned.
C14_SecondIssueInvalidatesFirst ==
  [][\A e \in Emails, g \in Codes, m \in MailOutcomes :
       ( /\ resend_verification(e, g, m) \/ send_verification_email(e, g, m)
         /\ last.op \in IssueOps /\ last.email = e
         /\ db[e].exists /\ ~db[e].is_email_verified
         /\ db[e].verification_code \in Codes )
       => ~is_verification_code_valid(db'[e], db[e].verification_code, now')]_vars

\* C15: whatever length is configured, zero included, every code an issuing
\* operation has stored on a user is a string of exactly that many decimal
\* digits (the empty string for length 0), on every issuing path.
C15_IssuedLength ==
  \A e \in Emails :
    db[e].verification_code # None =>
      /\ Len(db[e].verification_code) = code_length
      /\ \A i \in 1..code_length : db[e].verification_code[i] \in Digits

\* C16: an issue on an existing unverified user (resend_verification,
\* send_verification_email, the test_email_verification command) replaces
\* whatever code is stored by the new one, sets verification_code_created to
\* the current time, saves both, and leaves is_email_verified and every
\* other record as they were, whatever the mail dispatch does.
C16_IssueOverwrites ==
  [][\A e \in Emails, g \in IssuedCodes, m \in MailOutcomes :
       ( /\ db[e].exists /\ ~db[e].is_email_verified
         /\ \/ /\ ServedBy({"resend_verification"}, e)
               /\ resend_verification(e, g, m)
            \/ /\ ServedBy({"send_verification_email"}, e)
               /\ send_verification_email(e, g, m)
            \/ /\ ServedBy({"cmd_test_email_verification"}, e)
               /\ cmd_test_email_verification(e, g, m, FALSE) )
       => db' = [db EXCEPT ![e] =
                   [db[e] EXCEPT !.verification_code = g,
                                 !.verification_code_created = now]]]_vars

\* A re-issue after the clock has advanced: the stored timestamp is the
\* current time and the user is still unverified.
C16_Witness ==
  /\ last.op \in {"resend_verification", "send_verification_email"}
  /\ last.resp.status \in {200, 500}
  /\ ~db[last.email].is_email_verified
  /\ db[last.email].verification_code \in Codes
  /\ db[last.email].verification_code_created = now
  /\ now > 0

\* The response of consume endpoint op to candidate c at the current time
\* when the addressed row is user.
ConsumeResponse(op, e, c, user) ==
  Run(NewReq(op, e, c, None, "sent", FALSE, "absent"), user, now).req.resp

\* The states of a user that differ from user only in the code's age or in
\* whether a code is stored at all.
Variants(user) ==
  {user, clear_verification_code(user)}
    \cup (IF user.verification_code = None THEN {}
          ELSE {[user EXCEPT !.verification_code_created = t0] : t0 \in 0..now})

\* C17: for an existing unverified user, any two failing consumes on the
\* same endpoint (on states of the user that differ only in the age or the
\* presence of the stored code, with any submitted candidates) get the same
\* response, status and body: the response does not tell a wrong candidate
\* from an expired or a missing code.
C17_FailureIndistinguishable ==
  \A e \in Emails :
    (db[e].exists /\ ~db[e].is_email_verified) =>
      \A op \in ConsumeOps, u \in Variants(db[e]), c1, c2 \in Supplied :
        ( /\ ~CodeAccepted(db[e], c1, now)
          /\ ~CodeAccepted(u, c2, now) )
        => ConsumeResponse(op, e, c1, db[e]) = ConsumeResponse(op, e, c2, u)

\* A consume has failed on a stored code that has expired, and a wrong
\* candidate for the same user exists.
C17_Witness ==
  /\ last.op \in ConsumeOps /\ last.resp = InvalidOrExpired
  /\ db[last.email].exists /\ ~db[last.email].is_email_verified
  /\ db[last.email].verification_code \in Codes
  /\ now - db[last.email].verification_code_created > EMAIL_VERIFICATION_TIMEOUT
  /\ \E c \in Supplied : c # db[last.email].verification_code

NotFound == Response(404, "user_not_found")

\* C18: verify_email and verify_code with any submitted candidate, and
\* resend_verification and send_verification_email, addressed to an email
\* that matches no user answer NotFound (status 404) and change no record.
C18_UnknownEmailNotFound ==
  [][\A e \in Emails :
       ( /\ ServedBy(VerificationOps, e)
         /\ ~db[e].exists
         /\ \/ \E c \in Supplied : verify_email(e, c) \/ verify_code(e, c)
            \/ \E g \in IssuedCodes, m \in MailOutcomes :
                 resend_verification(e, g, m) \/ send_verification_email(e, g, m) )
       => /\ db' = db
          /\ last'.resp = NotFound]_vars

\* A verification endpoint has answered NotFound for an email without an
\* account while another account is stored.
C18_Witness ==
  /\ last.op \in VerificationOps /\ last.resp = NotFound
  /\ ~db[last.email].exists
  /\ \E e \in Emails : db[e].exists

\* C19: whenever register_view answers 201, the account it created is stored
\* unverified with the generated code and the current time as its timestamp,
\* whether the mail was sent, skipped or its dispatch raised.
C19_RegisteredHasCode ==
  [][\A e \in Registrable, g \in IssuedCodes, m \in RegisterMailOutcomes :
       ( /\ ServedBy({"register_view"}, e) /\ last'.resp.status = 201
         /\ register_view(e, g, m) )
       => /\ ~db[e].exists
          /\ db'[e].exists /\ ~db'[e].is_email_verified
          /\ db'[e].verification_code = g
          /\ db'[e].verification_code_created = now]_vars

\* A registration whose mail dispatch raised has answered 201 and the new
\* user is unverified with a code and its timestamp.
C19_Witness ==
  /\ last.op = "register_view" /\ last.resp = Response(201, "failed")
  /\ db[last.email].exists /\ ~db[last.email].is_email_verified
  /\ db[last.email].verification_code \in Codes
  /\ db[last.email].verification_code_created = now

\* The outcomes of a dispatch in which no mail was sent.
MailFailures == {"false", "raise"}

\* C20: whenever resend_verification on an existing unverified user could
\* not send the mail (the dispatch raised, or the sender returned False), the
\* response is a server-side error, never the success response.
C20_MailFailurePropagated ==
  [][\A e \in Emails, g \in IssuedCodes, m \in MailFailures :
       ( /\ resend_verification(e, g, m)
         /\ db[e].exists /\ ~db[e].is_email_verified )
       => /\ last'.resp.status >= 500
          /\ last'.resp # Response(200, "success")]_vars

\* C21: however like requests interleave, every (article, user) pair has at
\* most one ArticleLike; a like request that finds no like for its pair
\* creates exactly that one and answers 'liked', and a like request that
\* answers while a like exists for its pair creates nothing and answers
\* 'already liked'.
C21_LikeIdempotent ==
  [][/\ \A p \in ArticleIds \X Likers : likes'[p] <= 1
     /\ \A s \in Slots :
          LET p == <<liking'[s].article, liking'[s].user>>
          IN  ( /\ liking[s].pc # "done" /\ liking'[s].pc = "done"
                /\ articles[p[1]].exists )
              => /\ likes[p] = 0 =>
                      /\ likes' = [likes EXCEPT ![p] = 1]
                      /\ liking'[s].status = "liked"
                 /\ likes[p] >= 1 =>
                      /\ likes' = likes
                      /\ liking'[s].status = "already liked"]_vars

\* Two like requests for the same pair have raced: one was answered 'liked',
\* the other 'already liked', and one like is stored.
C21_Witness ==
  \E s, t \in Slots :
    /\ liking[s].pc = "done" /\ liking[s].status = "liked"
    /\ liking[t].pc = "done" /\ liking[t].status = "already liked"
    /\ liking[s].article = liking[t].article /\ liking[s].user = liking[t].user
    /\ likes[<<liking[s].article, liking[s].user>>] = 1

C23_SlugStable ==
  [][\A a \in ArticleIds :
       /\ articles[a].exists => articles'[a].slug = articles[a].slug
       /\ \A title \in Titles, slug \in GivenSlugs, status \in Statuses :
            (article_create(a, title, slug, status) /\ articles'[a].exists)
            => articles'[a].slug = IF slug = <<>> THEN slugify(title) ELSE slug]_vars

\* C24: an account creation without a username always comes to its end, and
\* the account it stores has a username no stored account had: the local
\* part of the email when that was free, otherwise the local part followed
\* by the decimal k, for the smallest k >= 1 that was free.
C24_UsernameGenerated ==
  /\ [][( /\ signup.pc = "create" /\ signup.generated
          /\ accounts' # accounts )
        => LET taken == Usernames(accounts)
               base == Before(signup.email, "@")
               username == signup.username
           IN  /\ accounts' = accounts \cup
                    {[username |-> username,
                      email |-> normalize_email(signup.email),
                      password |-> signup.password]}
               /\ username \notin taken
               /\ base \notin taken => username = base
               /\ base \in taken =>
                    \E k \in 1..(MaxAccounts + 1) :
                      /\ username = base \o Decimal(k)
                      /\ \A j \in 1..(k - 1) : base \o Decimal(j) \in taken]_vars
  /\ (signup.pc # "idle") ~> (signup.pc = "idle")

\* An account was given the generated username "a2": "a" and "a1" were
\* taken.
C24_Witness ==
  /\ signup.pc = "idle"
  /\ {<<"a">>, <<"a", "1">>, <<"a", "2">>} \subseteq Usernames(accounts)

\* C25: for every stored account, authenticate with the account's password
\* and either its email or its username as the login returns that account;
\* with another password, or with a login that is no stored email and no
\* stored username, it returns no user.
C25_LoginEmailOrUsername ==
  /\ \A u \in accounts :
       /\ authenticate(accounts, u.email, u.password) = u
       /\ authenticate(accounts, u.username, u.password) = u
       /\ \A password \in Passwords \ {u.password} :
            /\ authenticate(accounts, u.email, password) = NoAccount
            /\ authenticate(accounts, u.username, password) = NoAccount
  /\ \A login \in LoginStrings, password \in Passwords :
       login \notin (Usernames(accounts) \cup AccountEmailsOf(accounts))
         => authenticate(accounts, login, password) = NoAccount
  /\ session.status = 200 =>
       /\ session.user \in accounts
       /\ session.login \in {session.user.email, session.user.username}
       /\ session.password = session.user.password

UpdatedBy(e) == \E d \in ClientFlags : users_update(e, d)

CreatedBy(e) ==
  \/ \E d \in ClientFlags : users_create(e, d)
  \/ \E g \in Codes, m \in RegisterMailOutcomes : register_view(e, g, m)

\* C26: no create or update through the user serializer changes the
\* verification fields from client-supplied data: whatever is_email_verified
\* the payload carries, PUT/PATCH leaves is_email_verified, verification_code
\* and verification_code_created as they were, and an account created by
\* POST /users/ or by registration is unverified.
C26_SerializerFrame ==
  [][\A e \in Emails :
       /\ (ServedBy({"users_update"}, e) /\ UpdatedBy(e)) =>
             /\ db'[e].is_email_verified = db[e].is_email_verified
             /\ db'[e].verification_code = db[e].verification_code
             /\ db'[e].verification_code_created = db[e].verification_code_created
       /\ (/\ ServedBy({"users_create", "register_view"}, e)
           /\ last'.resp.status = 201
           /\ CreatedBy(e)) =>
             /\ ~db'[e].is_email_verified
             /\ last'.op = "users_create" =>
                  /\ db'[e].verification_code = None
                  /\ db'[e].verification_code_created = NoTime]_vars

\* An update was served for an account that was created through the
\* serializer and is still unverified with its code in place.
C26_Witness ==
  /\ last.op = "users_update"
  /\ last.resp.status = 200
  /\ last.email \in Registrable
  /\ db[last.email].exists
  /\ ~db[last.email].is_email_verified
  /\ db[last.email].verification_code \in Codes

\* C27: is_verification_code_valid and verify_code are pure queries: for
\* every instance and candidate a call leaves the instance's
\* verification_code, verification_code_created and is_email_verified as they
\* were and writes nothing to the stored row, and verify_code returns what
\* is_verification_code_valid returns.
C27_PureQueries ==
  [][\A s \in Slots, c \in Candidates :
       (/\ last'.op \in {"is_verification_code_valid", "user_verify_code"}
        /\ \/ call_is_verification_code_valid(s, c)
           \/ call_verify_code(s, c)) =>
         /\ reqs'[s].user.verification_code = reqs[s].user.verification_code
         /\ reqs'[s].user.verification_code_created
              = reqs[s].user.verification_code_created
         /\ reqs'[s].user.is_email_verified = reqs[s].user.is_email_verified
         /\ db' = db
         /\ last'.resp.code
              = Bool(is_verification_code_valid(reqs[s].user, c, now))]_vars

\* verify_code accepted a candidate on an instance that differs from the
\* stored row, and the instance still holds its code.
C27_Witness ==
  /\ last.op = "user_verify_code"
  /\ last.resp.code = "True"
  /\ reqs[1].user.verification_code \in Codes
  /\ reqs[1].user # db[last.email]

\* The four outcome kinds of a consume request.
OutcomeKinds == {NotFound, AlreadyVerified, InvalidOrExpired, Verified200}

\* What a consume request on endpoint op with candidate c does to the row of
\* e in the current state: the response and the row afterwards.
Consume(op, e, c) == Serve(NewReq(op, e, c, None, "sent", FALSE, "absent"))

\* C28: the two consume implementations are equivalent: for every user
\* state, clock value and non-empty candidate, views.verify_email and
\* verification_email.verify_code give the same outcome kind (NotFound,
\* AlreadyVerified, InvalidOrExpired, Verified) and leave the user's
\* is_email_verified, verification_code and verification_code_created in the
\* same resulting state.
C28_ConsumeEquivalent ==
  \A e \in Emails, c \in Supplied :
    LET a == Consume("verify_email", e, c)
        b == Consume("verify_code", e, c)
    IN  /\ a.req.resp \in OutcomeKinds
        /\ a.req.resp = b.req.resp
        /\ a.row.is_email_verified = b.row.is_email_verified
        /\ a.row.verification_code = b.row.verification_code
        /\ a.row.verification_code_created = b.row.verification_code_created

\* verify_code has just verified a user whose code verify_email would have
\* accepted as well: the row is verified and holds no code.
C28_Witness ==
  /\ last.op = "verify_code"
  /\ last.resp = Verified200
  /\ db[last.email].is_email_verified
  /\ db[last.email].verification_code = None
  /\ db[last.email].verification_code_created = NoTime

\* The two responses of resend_verification after it has issued a code.
ResendResponses ==
  {Response(200, "success"), Response(500, "email_sending_failed")}

\* C29: resend_verification on an existing unverified user stores the newly
\* generated code and a fresh timestamp before it dispatches the mail: when
\* the request has returned, with the success response or with the
\* email_sending_failed error, the stored code is the new one, stamped with
\* the current time, and the code issued before is accepted only if it is
\* equal to the new one.
C29_ResendStoresBeforeMail ==
  [][\A e \in Emails, g \in IssuedCodes, m \in MailOutcomes :
       ( /\ ServedBy({"resend_verification"}, e)
         /\ db[e].exists /\ ~db[e].is_email_verified
         /\ resend_verification(e, g, m) )
       => /\ last'.resp \in ResendResponses
          /\ m = "raise" <=> last'.resp = Response(500, "email_sending_failed")
          /\ db'[e].verification_code = g
          /\ db'[e].verification_code_created = now'
          /\ is_verification_code_valid(db'[e], db[e].verification_code, now')
               => db[e].verification_code = g]_vars

\* A resend whose mail dispatch raised has returned, after the clock had
\* advanced: the row holds a code stamped with the current time.
C29_Witness ==
  /\ last.op = "resend_verification"
  /\ last.resp = Response(500, "email_sending_failed")
  /\ ~db[last.email].is_email_verified
  /\ db[last.email].verification_code \in Codes
  /\ db[last.email].verification_code_created = now
  /\ now > 0

\* C30: the get_verification_code command agrees with
\* is_verification_code_valid on expiry: for every stored code, creation time
\* and current time, the command reports the code as unexpired exactly when
\* is_verification_code_valid accepts the stored code at that time, the
\* moment elapsed = timeout included.
C30_CommandAgreesOnExpiry ==
  [][\A e \in Emails :
       ( /\ ServedBy({"cmd_get_verification_code"}, e)
         /\ db[e].exists
         /\ cmd_get_verification_code(e) )
       => ( last'.resp = Response(0, "unexpired")
              <=> is_verification_code_valid(db[e], db[e].verification_code,
                                             now) )]_vars

====
